---- MODULE Spec2Model ----
(***************************************************************************)
(* Model of dynamic_mcp: the JSON-backed credential store and the          *)
(* delegated-trust resolver (auth.py), the capability matcher and the tool *)
(* registry with its validated calls (registry.py), and the mint endpoint  *)
(* (app.py).                                                               *)
(*                                                                         *)
(* Strings that are pattern-matched (capabilities, actions, tags) are      *)
(* sequences of one-character strings, so that fnmatch is computed         *)
(* character by character.  Timestamps are UTC instants, numbered          *)
(* 0..MaxTime; an ISO-8601 string is <<"iso", t>>; Python's None is <<>>.  *)
(***************************************************************************)
EXTENDS Integers, Sequences, FiniteSets, TLC

VARIABLES
    file,       \* text of the JSON store file (ApiKeyStore.path)
    now,        \* the UTC clock read by _utcnow()
    secret,     \* value of DYNAMIC_MCP_APIKEY_HMAC_SECRET ("" when unset)
    draws,      \* number of random tokens drawn so far (secrets.token_urlsafe)
    ret,        \* outcome of the last completed operation
    minted,     \* history: one entry per mint_key call that returned a token
    revokedOk,  \* history: tokens for which revoke() has returned True
    pc,         \* per request: position inside the store operation it runs
    frame,      \* per request: the local variables of that operation
    tools,      \* ToolRegistry._tools: name -> ToolDef
    caller,     \* the Principal of the requests made to the registry
    lastReg,    \* history: name -> arguments of the latest register under it
    handled,    \* history: the handler invocations made by call, in order
    request,    \* headers of the request given to _principal_external
    env,        \* os.environ: ENABLE_MINT, ADMIN_TOKEN, AUTH_MODE
    steps       \* history: the steps the last call_tool request ran, in order

vars == <<file, now, secret, draws, ret, minted, revokedOk, pc, frame, tools, caller,
         lastReg, handled, request, env, steps>>

-----------------------------------------------------------------------------
(* Bounds of the model *)

MaxKeys == 1        \* tokens drawn when operations run one at a time
MaxTime == 1        \* last clock value
NumProcs == 2       \* overlapping requests, and tokens they may draw
MaxCaps == 2        \* capabilities a caller of the registry may hold
MaxCalls == 1       \* handler invocations
MaxRecords == 2     \* tokens drawn when the store is studied without a clock

-----------------------------------------------------------------------------
(* Python values *)

None == <<>>
Some(v) == <<v>>
Truthy(v) == v # None

\* datetime.isoformat() / datetime.fromisoformat()
isoformat(t) == <<"iso", t>>
fromisoformat(s) == s[2]

\* json.dumps(obj, indent=2, sort_keys=True) / json.loads(text)
json_dumps(obj) == [json |-> obj]
json_loads(text) == text.json

\* what an operation returned or raised: the operation and its argument, then
\* the outcome ("ok" or the error), the error's message, the value returned
NoRet == [op |-> "none", arg |-> None, outcome |-> "none", detail |-> "",
          value |-> None]
Ret(op, arg, outcome, detail, value) ==
    [op |-> op, arg |-> arg, outcome |-> outcome, detail |-> detail,
     value |-> value]

Time == 0..MaxTime
Procs == 1..NumProcs

-----------------------------------------------------------------------------
(* Capability strings *)

S_star == <<"*">>
S_admin_star == <<"a","d","m","i","n",":","*">>
S_tools_call == <<"t","o","o","l","s",":","c","a","l","l">>
S_tool_math_star == <<"t","o","o","l",":","m","a","t","h",":","*">>
S_tool_math_add == <<"t","o","o","l",":","m","a","t","h",":","a","d","d">>
S_tool_secret_read == <<"t","o","o","l",":","s","e","c","r","e","t",":","r","e","a","d">>
S_tool_x == <<"t","o","o","l",":","x">>
S_tool_any1 == <<"t","o","o","l",":","?">>
S_tag_safe == <<"t","a","g",":","s","a","f","e">>
S_server_describe == <<"s","e","r","v","e","r",":","d","e","s","c","r","i","b","e">>
S_tools_list == <<"t","o","o","l","s",":","l","i","s","t">>
S_tools_get == <<"t","o","o","l","s",":","g","e","t">>

-----------------------------------------------------------------------------
(* auth.py: digest, tokens, records *)

mcp_live == "mcp_live_"

\* prefix + secrets.token_urlsafe(32).  The random part is unguessable and
\* never repeats; it is named by the number of the mint_key call that drew
\* it.  Token(0) is a string of the same shape that no call ever draws.
Token(n) == <<mcp_live, n>>
Tokens == {Token(n) : n \in 0..MaxKeys}
ConcTokens == {Token(n) : n \in 0..NumProcs}

\* "k_" + secrets.token_urlsafe(10), named the same way
KeyId(n) == <<"k_", n>>

_hmac_digest_Plain(token, key) == token

_hmac_digest_OfPrefix(token, key) == <<"hmac_sha256", token[1], key>>

\* hmac.new(secret, token, sha256).hexdigest(): a string determined by the
\* token and the key, collision-free, from which neither can be read back
_hmac_digest(token, key) == <<"hmac_sha256", token, key>>

_hmac_secret_raises_Never == FALSE

\* _hmac_secret(): raises RuntimeError when the variable is unset or empty
_hmac_secret_raises == secret = ""

StoredKey(key_id, token_hmac, principal_id, capabilities, constraints, created_at, expires_at) ==
    [key_id |-> key_id,
     token_hmac |-> token_hmac,
     principal_id |-> principal_id,
     capabilities |-> capabilities,
     constraints |-> IF constraints = None \/ constraints[1] = {}
                     THEN {} ELSE constraints[1],
     created_at |-> isoformat(created_at),
     expires_at |-> IF expires_at # None THEN isoformat(expires_at[1]) ELSE None,
     revoked_at |-> None,
     last_used_at |-> None]

Principal_NoConstraints(principal_id, capabilities, constraints) ==
    [principal_id |-> principal_id,
     capabilities |-> capabilities,
     constraints |-> {},
     disabled |-> FALSE]

\* models.Principal, as resolve builds it (lines 152-157)
Principal(principal_id, capabilities, constraints) ==
    [principal_id |-> principal_id,
     capabilities |-> capabilities,
     constraints |-> constraints,
     disabled |-> FALSE]

\* ApiKeyStore._read / ApiKeyStore._write
_read == json_loads(file)
_write(db) == json_dumps(db)

EmptyDb == [keys |-> <<>>]

MintAppend_Replace(db, rec) == [db EXCEPT !.keys = <<rec>>]

\* mint_key, lines 105-106: db["keys"].append(rec.__dict__)
MintAppend(db, rec) == [db EXCEPT !.keys = Append(@, rec)]

RevokeMatches_AnyMatch(k, token_hmac) ==
    k.token_hmac = token_hmac

\* revoke, lines 114-118: every matching record that is not yet revoked
RevokeMatches(k, token_hmac) ==
    k.token_hmac = token_hmac /\ ~Truthy(k.revoked_at)

RevokeScan(db, token_hmac, t) ==
    [db |-> [db EXCEPT !.keys =
                [i \in DOMAIN db.keys |->
                    IF RevokeMatches(db.keys[i], token_hmac)
                    THEN [db.keys[i] EXCEPT !.revoked_at = isoformat(t)]
                    ELSE db.keys[i]]],
     changed |-> \E i \in DOMAIN db.keys : RevokeMatches(db.keys[i], token_hmac)]

ResolveExpired_Reversed(k, t) ==
    Truthy(k.expires_at) /\ t < fromisoformat(k.expires_at)

\* resolve, lines 133-143: the checks on the first record whose digest matches
\* (expires_at was written by isoformat, so fromisoformat does not fail)
ResolveRevoked(k) == Truthy(k.revoked_at)
ResolveExpired(k, t) ==
    Truthy(k.expires_at) /\ fromisoformat(k.expires_at) < t

Unauthorized(detail) ==
    [outcome |-> "Unauthorized", detail |-> detail, write |-> FALSE]

\* resolve, lines 129-159: the scan from record i on
RECURSIVE ResolveScan(_, _, _, _)
ResolveScan(db, i, token_hmac, t) ==
    IF i > Len(db.keys)
    THEN Unauthorized("Invalid API key")
    ELSE LET k == db.keys[i] IN
         IF k.token_hmac # token_hmac
         THEN ResolveScan(db, i + 1, token_hmac, t)
         ELSE IF ResolveRevoked(k)
         THEN Unauthorized("API key revoked")
         ELSE IF ResolveExpired(k, t)
         THEN Unauthorized("API key expired")
         ELSE [outcome |-> "ok", detail |-> "", write |-> TRUE,
               db |-> [db EXCEPT !.keys[i].last_used_at = isoformat(t)],
               principal |-> Principal(k.principal_id, k.capabilities,
                                       k.constraints)]

\* Path.write_text that raises: the file is left as it was when it could
\* not be opened, and is cut short when the error came after the open
Truncated == [truncated |-> ""]
WriteFailures == {"unopened", "truncated"}
FileAfterFailedWrite(text, how) == IF how = "unopened" THEN text ELSE Truncated

\* _read raises json.JSONDecodeError on a text that is not JSON
StoreReadable == "json" \in DOMAIN file
JSONDecodeError == "JSONDecodeError"

AfterWrite_Propagates(r, write_raised) ==
    IF write_raised
    THEN [outcome |-> "OSError", detail |-> "", value |-> None]
    ELSE [outcome |-> r.outcome, detail |-> r.detail,
          value |-> IF r.outcome = "ok" THEN r.principal ELSE None]

\* resolve, lines 147-157: try: self._write(db) / except Exception: pass,
\* then return Principal(...)
AfterWrite(r, write_raised) ==
    [outcome |-> r.outcome, detail |-> r.detail,
     value |-> IF r.outcome = "ok" THEN r.principal ELSE None]

-----------------------------------------------------------------------------
(* registry.py: capability matcher *)

\* fnmatch.fnmatch(name, pat) from position i of name and j of pat, on POSIX
\* (os.path.normcase is the identity): "*" matches any run of characters, "?"
\* any one character, every other character itself.  No string of the model
\* holds "[", the only other character fnmatch treats specially.
RECURSIVE fnmatch_from(_, _, _, _)
fnmatch_from(name, i, pat, j) ==
    IF j > Len(pat)
    THEN i > Len(name)
    ELSE IF pat[j] = "*"
    THEN \/ fnmatch_from(name, i, pat, j + 1)
         \/ i <= Len(name) /\ fnmatch_from(name, i + 1, pat, j)
    ELSE /\ i <= Len(name)
         /\ pat[j] = "?" \/ pat[j] = name[i]
         /\ fnmatch_from(name, i + 1, pat, j + 1)

fnmatch_Exact(name, pat) == name = pat

fnmatch(name, pat) == fnmatch_from(name, 1, pat, 1)

CapGrants_OneWay(cap, required) ==
    \/ cap = S_star
    \/ cap = S_admin_star
    \/ fnmatch(required, cap)

\* _principal_has, lines 92-95: the body of the loop for one capability
CapGrants(cap, required) ==
    \/ cap = S_star
    \/ cap = S_admin_star
    \/ fnmatch(required, cap)
    \/ fnmatch(cap, required)

_principal_has_from_StarRequired(capabilities, i, required) ==
    \/ required = S_star
    \/ \E j \in i..Len(capabilities) : CapGrants(capabilities[j], required)

_principal_has_from_FirstOnly(capabilities, i, required) ==
    i <= Len(capabilities) /\ CapGrants(capabilities[i], required)

\* _principal_has, lines 91-96: the loop from capability i on
RECURSIVE _principal_has_from(_, _, _)
_principal_has_from(capabilities, i, required) ==
    IF i > Len(capabilities)
    THEN FALSE
    ELSE IF CapGrants(capabilities[i], required)
    THEN TRUE
    ELSE _principal_has_from(capabilities, i + 1, required)

_principal_has(principal, required) ==
    _principal_has_from(principal.capabilities, 1, required)

Forbidden == "Forbidden"

\* authorize_action: returns, or raises 403
authorize_action(principal, action) ==
    IF _principal_has(principal, action)
    THEN [outcome |-> "ok", detail |-> ""]
    ELSE [outcome |-> Forbidden, detail |-> "Missing capability"]

\* f"tag:{tag}"
TagCap(tag) == <<"t","a","g",":">> \o tag

\* enforce_tool, lines 109-111 and 114-116: the two loops
AnyRequiredCap(principal, tool) ==
    \E i \in DOMAIN tool.required_caps :
        _principal_has(principal, tool.required_caps[i])
AnyTagCap(principal, tool) ==
    \E i \in DOMAIN tool.tags : _principal_has(principal, TagCap(tool.tags[i]))

enforce_tool_RequiredOnly(principal, tool) ==
    IF AnyRequiredCap(principal, tool)
    THEN [outcome |-> "ok", detail |-> ""]
    ELSE [outcome |-> Forbidden, detail |-> "Not authorized for this tool"]

\* enforce_tool: returns, or raises 403
enforce_tool(principal, tool) ==
    IF AnyRequiredCap(principal, tool) \/ AnyTagCap(principal, tool)
    THEN [outcome |-> "ok", detail |-> ""]
    ELSE [outcome |-> Forbidden, detail |-> "Not authorized for this tool"]

-----------------------------------------------------------------------------
(* registry.py: register *)

\* str.strip() of a documentation string
RECURSIVE lstrip(_)
lstrip(s) == IF s # <<>> /\ Head(s) = " " THEN lstrip(Tail(s)) ELSE s
RECURSIVE rstrip(_)
rstrip(s) ==
    IF s # <<>> /\ s[Len(s)] = " " THEN rstrip(SubSeq(s, 1, Len(s) - 1)) ELSE s
strip(s) == rstrip(lstrip(s))

\* Python's "x or y" on an Optional string or list
Or(x, y) == IF x = None THEN y ELSE x

\* register, lines 54-59: the fields of the input model, one per parameter
\* of the handler other than "user"
InputFields(fn) == SelectSeq(fn.params, LAMBDA q : q.name # "user")

\* register, lines 46-47
ToolName(fn, name) == Or(name, fn.__name__)
ToolDescription(fn, name, description) ==
    Or(description,
       Or(strip(Or(fn.__doc__, <<>>)),
          <<"T","o","o","l"," ">> \o ToolName(fn, name)))

RequiredCaps_AsGiven(fn, name, required_caps) == required_caps

\* register, lines 67-72
RequiredCaps(fn, name, required_caps) ==
    Or(required_caps, << <<"t","o","o","l",":">> \o ToolName(fn, name) >>)

\* register, lines 76-84: the ToolDef it builds
ToolDef(fn, name, description, required_caps, tags) ==
    [name |-> ToolName(fn, name),
     description |-> ToolDescription(fn, name, description),
     fn |-> fn,
     input_model |-> InputFields(fn),
     output_model |-> <<"value">>,
     required_caps |-> RequiredCaps(fn, name, required_caps),
     tags |-> Or(tags, <<>>)]

-----------------------------------------------------------------------------
(* registry.py: get and call *)

KeyError == "KeyError"
ValidationError == "ValidationError"

\* Values of the arguments of a call are JSON values <<type, text>>.
V_int1 == <<"int", "1">>
V_int0 == <<"int", "0">>
V_str1 == <<"str", "1">>
V_str_abc == <<"str", "abc">>

IsNumeric(text) == text \in {"0", "1"}
FloatOf(text) == IF text = "0" THEN "0.0" ELSE "1.0"

\* pydantic validating value v for a field annotated ann, in the default
\* (lax) mode: Some(the value the model then holds), or None when v is refused
Coerce(ann, v) ==
    IF ann = "Any" THEN Some(v)
    ELSE IF ann = "str"
    THEN IF v[1] = "str" THEN Some(v) ELSE None
    ELSE IF ann = "int"
    THEN IF v[1] = "int" THEN Some(v)
         ELSE IF v[1] = "str" /\ IsNumeric(v[2]) THEN Some(<<"int", v[2]>>)
         ELSE None
    ELSE IF ann = "float"
    THEN IF v[1] = "int" \/ (v[1] = "str" /\ IsNumeric(v[2]))
         THEN Some(<<"float", FloatOf(v[2])>>)
         ELSE None
    ELSE None

Validated_DefaultsAll(f, args) ==
    IF f.name \in DOMAIN args
    THEN Coerce(f.ann, args[f.name])
    ELSE Some(V_int0)

\* tool.input_model(**args), one field: the value given under the field's
\* name, validated; else the field's default; None when the value is refused
\* or when the field has no default and nothing is given (it is required)
Validated(f, args) ==
    IF f.name \in DOMAIN args
    THEN Coerce(f.ann, args[f.name])
    ELSE f.default

\* e.errors(): one entry per field that fails, in field order
RECURSIVE Errors(_, _)
Errors(fields, args) ==
    IF fields = <<>> THEN <<>>
    ELSE LET f == Head(fields)
             rest == Errors(Tail(fields), args)
         IN IF Validated(f, args) # None THEN rest
            ELSE << [loc |-> f.name,
                     type |-> IF f.name \in DOMAIN args THEN "parsing"
                              ELSE "missing"] >> \o rest

\* parsed.model_dump(): the fields of the model and nothing else; a key of
\* args that names no field is dropped (pydantic's default, extra="ignore")
model_dump(fields, args) ==
    [n \in {fields[i].name : i \in DOMAIN fields} |->
        LET f == CHOOSE f \in {fields[i] : i \in DOMAIN fields} : f.name = n
        IN Validated(f, args)[1]]

\* "p" in inspect.signature(tool.fn).parameters
HasParam(fn, pname) == \E i \in DOMAIN fn.params : fn.params[i].name = pname

\* kwargs[k] = v
SetItem(d, k, v) == [n \in DOMAIN d \cup {k} |-> IF n = k THEN v ELSE d[n]]

\* call, lines 129-134
Kwargs(fn, dump, principal) ==
    IF HasParam(fn, "principal") THEN SetItem(dump, "principal", principal)
    ELSE IF HasParam(fn, "user") THEN SetItem(dump, "user", principal)
    ELSE dump

\* ToolRegistry.call: raises 422 carrying the error list, or invokes the
\* handler once and wraps what it returns
call(tool, args, principal) ==
    LET errs == Errors(tool.input_model, args)
    IN IF errs # <<>>
       THEN [outcome |-> ValidationError, detail |-> "Unprocessable Entity",
             invoked |-> None, value |-> errs]
       ELSE LET kwargs == Kwargs(tool.fn, model_dump(tool.input_model, args),
                                 principal)
            IN [outcome |-> "ok", detail |-> "",
                invoked |-> [fn |-> tool.fn.__name__, kwargs |-> kwargs],
                value |-> [value |-> [returned_by |-> tool.fn.__name__,
                                      kwargs |-> kwargs]]]

HandlerError == "HandlerError"

Invocations_Retry(tool, kwargs) ==
    <<[fn |-> tool.fn.__name__, kwargs |-> kwargs],
      [fn |-> tool.fn.__name__, kwargs |-> kwargs]>>

\* call, lines 137-140: tool.fn(**kwargs), once on either branch
Invocations(tool, kwargs) ==
    IF tool.fn.is_async
    THEN <<[fn |-> tool.fn.__name__, kwargs |-> kwargs]>>
    ELSE <<[fn |-> tool.fn.__name__, kwargs |-> kwargs]>>

\* call, when tool.fn raises: nothing in call catches it
call_raising(tool, args, principal) ==
    LET errs == Errors(tool.input_model, args)
    IN IF errs # <<>>
       THEN [outcome |-> ValidationError, detail |-> "Unprocessable Entity",
             invoked |-> <<>>, value |-> errs]
       ELSE [outcome |-> HandlerError, detail |-> "Internal Server Error",
             invoked |-> Invocations(tool,
                             Kwargs(tool.fn, model_dump(tool.input_model, args),
                                    principal)),
             value |-> None]

NotFound == "NotFound"
RouteSteps == <<"authorize_action", "get", "enforce_tool", "validate", "handler">>

call_tool_LookupFirst(registry, name, arguments, principal, raises) ==
    LET stop(n, outcome, detail) ==
            [outcome |-> outcome, detail |-> detail, steps |-> SubSeq(RouteSteps, 1, n),
             invoked |-> <<>>, value |-> None]
        authz == authorize_action(principal, S_tools_call)
    IN IF name \notin DOMAIN registry
       THEN stop(1, NotFound, "Tool not found")
       ELSE stop(2, authz.outcome, authz.detail)

\* app.py, call_tool: authorize_action, get, enforce_tool, call; the
\* response carries the name of the tool and the envelope returned by call
call_tool(registry, name, arguments, principal, raises) ==
    LET stop(n, outcome, detail) ==
            [outcome |-> outcome, detail |-> detail, steps |-> SubSeq(RouteSteps, 1, n),
             invoked |-> <<>>, value |-> None]
        authz == authorize_action(principal, S_tools_call)
    IN IF authz.outcome # "ok"
       THEN stop(1, authz.outcome, authz.detail)
       ELSE IF name \notin DOMAIN registry
       THEN stop(2, NotFound, "Tool not found")
       ELSE LET t == registry[name]
                enforced == enforce_tool(principal, t)
                returned == call(t, arguments, principal)
                raised == call_raising(t, arguments, principal)
            IN IF enforced.outcome # "ok"
               THEN stop(3, enforced.outcome, enforced.detail)
               ELSE IF returned.outcome # "ok"
               THEN stop(4, returned.outcome, returned.detail)
               ELSE IF raises
               THEN [outcome |-> raised.outcome, detail |-> raised.detail,
                     steps |-> RouteSteps, invoked |-> raised.invoked,
                     value |-> None]
               ELSE [outcome |-> "ok", detail |-> "", steps |-> RouteSteps,
                     invoked |-> <<returned.invoked>>,
                     value |-> [name |-> t.name, result |-> returned.value]]

-----------------------------------------------------------------------------
(* auth.py: _principal_external and get_auth_mode; app.py: mint *)

\* str.split(sep)
RECURSIVE split(_, _)
split(s, sep) ==
    IF \A i \in DOMAIN s : s[i] # sep
    THEN <<s>>
    ELSE LET i == CHOOSE i \in DOMAIN s :
                      s[i] = sep /\ \A j \in 1..(i - 1) : s[j] # sep
         IN <<SubSeq(s, 1, i - 1)>> \o split(SubSeq(s, i + 1, Len(s)), sep)

\* str.lower()
Upper ==
    <<"A","B","C","D","E","F","G","H","I","J","K","L","M",
      "N","O","P","Q","R","S","T","U","V","W","X","Y","Z">>
Lower ==
    <<"a","b","c","d","e","f","g","h","i","j","k","l","m",
      "n","o","p","q","r","s","t","u","v","w","x","y","z">>
lower(s) ==
    [i \in DOMAIN s |->
        IF \E j \in DOMAIN Upper : Upper[j] = s[i]
        THEN Lower[CHOOSE j \in DOMAIN Upper : Upper[j] = s[i]]
        ELSE s[i]]

\* request.headers.get(name, default) / os.getenv(name, default)
Get_or(v, default) == IF v = None THEN default ELSE v[1]

\* texts of the constraints header
J_region ==
    <<"{","\"","r","e","g","i","o","n","\"",":","\"","e","u","\"","}">>
J_empty_object == <<"{","}">>
J_list == <<"[","1","]">>
J_broken == <<"{","r","e","g","i","o","n">>

\* json.loads(text) on these texts: the value and its type, or "raises"
json_loads_text(text) ==
    IF text = J_region
    THEN [raises |-> FALSE, type |-> "dict", value |-> {<<"region", "eu">>}]
    ELSE IF text = J_empty_object
    THEN [raises |-> FALSE, type |-> "dict", value |-> {}]
    ELSE IF text = J_list
    THEN [raises |-> FALSE, type |-> "list", value |-> {}]
    ELSE [raises |-> TRUE, type |-> "", value |-> {}]

\* _principal_external, line 171
CapabilityList(caps_raw) ==
    LET parts == split(caps_raw, ",")
        kept == SelectSeq(parts, LAMBDA c : strip(c) # <<>>)
    IN [i \in DOMAIN kept |-> strip(kept[i])]

\* _principal_external: returns a Principal, or raises 401
_principal_external(headers) ==
    LET pid == strip(Get_or(headers.principal, <<>>))
        caps_raw == strip(Get_or(headers.capabilities, <<>>))
        cons_raw == strip(Get_or(headers.constraints, <<>>))
        loaded == json_loads_text(cons_raw)
    IN IF pid = <<>>
       THEN [outcome |-> "Unauthorized", detail |-> "Missing X-MCP-Principal",
             value |-> None]
       ELSE IF cons_raw # <<>> /\ loaded.raises
       THEN [outcome |-> "Unauthorized", detail |-> "Invalid X-MCP-Constraints",
             value |-> None]
       ELSE [outcome |-> "ok", detail |-> "",
             value |-> Principal(pid, CapabilityList(caps_raw),
                                 IF cons_raw # <<>> /\ loaded.type = "dict"
                                 THEN loaded.value ELSE {})]

\* get_auth_mode()
S_apikey == <<"a","p","i","k","e","y">>
get_auth_mode == lower(strip(Get_or(env.AUTH_MODE, S_apikey)))

\* _principal_noauth()
_principal_noauth == Principal("anonymous", <<S_star>>, {})

S_none == <<"n","o","n","e">>
S_external == <<"e","x","t","e","r","n","a","l">>
S_bearer == <<"b","e","a","r","e","r">>

BearerMissing_SchemeIgnored(creds) ==
    creds = None \/ ~Truthy(creds.credentials)

\* get_current_principal, line 202:
\* creds is None or creds.scheme.lower() != "bearer" or not creds.credentials
BearerMissing(creds) ==
    creds = None \/ lower(creds.scheme) # S_bearer \/ ~Truthy(creds.credentials)

AdminTokenRefused_EmptyAccepted(expected, admin_token) ==
    admin_token # Some(expected)

\* mint, line 84: not expected or admin_token != expected
AdminTokenRefused(expected, admin_token) ==
    expected = "" \/ admin_token # Some(expected)

-----------------------------------------------------------------------------
(* Inputs *)

DemoCaps == <<S_tool_math_star, S_tools_call>>
OpsCaps == <<S_star>>
Region == {<<"region", "eu">>}

\* (principal_id, capabilities, constraints) given to mint_key
MintArgs ==
    { <<"demo", DemoCaps, None>>,
      <<"ops", OpsCaps, Some(Region)>> }

\* expires_at given to mint_key
ExpiresArgs == {None} \cup {Some(t) : t \in Time}

\* handlers given to register: add and get_secret of examples/basic_server.py
\* (get_secret also under a narrower capability), and a one-parameter tool x
N_add == <<"a","d","d">>
N_get_secret == <<"g","e","t","_","s","e","c","r","e","t">>
N_x == <<"x">>
T_safe == <<"s","a","f","e">>
T_math == <<"m","a","t","h">>
T_dangerous == <<"d","a","n","g","e","r","o","u","s">>
Param(name, ann) == [name |-> name, ann |-> ann, default |-> None]
Fn_add ==
    [__name__ |-> N_add, __doc__ |-> <<"A","d","d"," ">>, is_async |-> FALSE,
     params |-> <<Param("a", "float"), Param("b", "float")>>]
Fn_get_secret ==
    [__name__ |-> N_get_secret, __doc__ |-> <<"F","e","t","c","h">>,
     is_async |-> FALSE, params |-> <<Param("key", "str")>>]
Fn_x ==
    [__name__ |-> N_x, __doc__ |-> None, is_async |-> TRUE,
     params |-> <<Param("n", "int")>>]

\* (fn, name, description, required_caps, tags) given to register
RegisterArgs ==
    { <<Fn_add, None, <<"A","d","d">>, <<S_tool_math_add>>, <<T_safe, T_math>> >>,
      <<Fn_add, None, None, None, None>>,
      <<Fn_get_secret, None, None, <<S_tool_secret_read>>, <<T_dangerous>> >>,
      <<Fn_x, None, None, <<S_tool_x>>, <<T_safe>> >> }

\* the tools of the end-to-end scenario
Tool_add == ToolDef(Fn_add, None, <<"A","d","d">>, <<S_tool_math_add>>, <<T_safe, T_math>>)
Tool_read_secret == ToolDef(Fn_get_secret, None, None, <<S_tool_secret_read>>, <<T_dangerous>>)
E2ETools == {Tool_add, Tool_read_secret}

\* capability patterns a caller may hold, and strings it may request
CapStrings ==
    {S_star, S_admin_star, S_tool_math_star, S_tool_math_add, S_tag_safe,
     S_tool_any1}
RequiredStrings == CapStrings \cup {S_tool_x}
Actions == {S_server_describe, S_tools_list, S_tools_get, S_tools_call}

RECURSIVE SeqsUpTo(_, _)
SeqsUpTo(S, n) ==
    IF n = 0 THEN {<<>>}
    ELSE LET shorter == SeqsUpTo(S, n - 1)
         IN shorter \cup {Append(q, x) : q \in shorter, x \in S}

NoCaller == Principal("nobody", <<>>, {})
Callers == {Principal("caller", caps, {}) : caps \in SeqsUpTo(CapStrings, MaxCaps)}

RuntimeError == "RuntimeError"
SecretUnset == "DYNAMIC_MCP_APIKEY_HMAC_SECRET must be set for apikey auth mode."

MintEntry(token, principal_id, capabilities, constraints, expires_at) ==
    [token |-> token, principal_id |-> principal_id,
     capabilities |-> capabilities, constraints |-> constraints,
     expires_at |-> expires_at]

\* handlers that take the caller: whoami(principal: Principal) and
\* greet(user, n: int = 0)
N_whoami == <<"w","h","o","a","m","i">>
N_greet == <<"g","r","e","e","t">>
ParamDefault(name, ann, v) == [name |-> name, ann |-> ann, default |-> Some(v)]
Fn_whoami ==
    [__name__ |-> N_whoami, __doc__ |-> None, is_async |-> FALSE,
     params |-> <<Param("principal", "Principal")>>]
Fn_greet ==
    [__name__ |-> N_greet, __doc__ |-> <<" ","H","i"," ">>, is_async |-> TRUE,
     params |-> <<Param("user", "Any"), ParamDefault("n", "int", V_int0)>>]

\* (fn, name, description, required_caps, tags) given to register before
\* calls; required_caps None and [] are the same falsy value
CallRegisterArgs ==
    { <<Fn_add, None, <<"A","d","d">>, <<S_tool_math_add>>, <<T_safe, T_math>> >>,
      <<Fn_add, None, None, None, None>>,
      <<Fn_whoami, None, None, None, None>>,
      <<Fn_greet, None, None, <<S_tool_x>>, None>>,
      <<Fn_greet, N_add, None, None, <<T_dangerous>> >> }

\* arguments given to call
NoArgs == [n \in {} |-> V_int0]
CallArgs ==
    { NoArgs,
      [a |-> V_int1],
      [a |-> V_int1, b |-> V_str1],
      [a |-> V_int1, b |-> V_str_abc],
      [a |-> V_int1, b |-> V_int1, c |-> V_int1],
      [n |-> V_str1] }

\* names given to get
GetNames == {N_add, N_whoami, N_greet, N_x}

CallCaller == Principal("caller", <<S_tools_call>>, {})

\* arguments and principals of the requests made to the call_tool route
RouteArgs ==
    { NoArgs,
      [a |-> V_int1],
      [a |-> V_int1, b |-> V_str1],
      [n |-> V_str1] }
RouteCallers ==
    {Principal("caller", caps, {}) :
        caps \in {<<>>, <<S_tool_math_add>>, <<S_tools_call>>,
                  <<S_tools_call, S_tool_math_add>>, <<S_star>>}}

\* headers of a request in external mode: None when the header is absent
S_alice == <<"a","l","i","c","e">>
PrincipalHeaders ==
    {None, Some(<<>>), Some(<<" "," ">>), Some(S_alice), Some(<<" ">> \o S_alice)}
CapabilitiesHeaders ==
    {None, Some(<<" ">>), Some(S_tool_x),
     Some(S_tool_x \o <<","," ">> \o S_tag_safe \o <<",",","," ">>)}
ConstraintsHeaders ==
    {None, Some(<<" ">>), Some(J_region), Some(<<" ">> \o J_empty_object),
     Some(J_list), Some(J_broken)}
Requests ==
    [principal : PrincipalHeaders, capabilities : CapabilitiesHeaders,
     constraints : ConstraintsHeaders]

\* environments of the mint endpoint, and the requests made to it
Envs ==
    [ENABLE_MINT : {None, Some("1"), Some("true")},
     ADMIN_TOKEN : {None, Some(""), Some("adm1n")},
     AUTH_MODE : {None, Some(<<" ","A","p","i","K","e","y">>),
                  Some(<<"e","x","t","e","r","n","a","l">>), Some(<<>>)}]
AdminTokens == {None, Some(""), Some("adm1n"), Some("adm1n ")}
TtlSeconds == {0, 1}

\* tools that anyone holding any capability may call, and principals of
\* which two hold no capability (the second as _principal_external makes it
\* from a capabilities header without any pattern)
N_any == <<"a","n","y">>
OpenRegisterArgs ==
    RegisterArgs \cup
    { <<Fn_x, N_any, None, <<S_star>>, None>>,
      <<Fn_x, None, None, <<S_star, S_tool_x>>, <<S_star>> >> }
S_bob == <<"b","o","b">>
NoCapsCallers ==
    {Principal(S_bob, <<>>, {}),
     _principal_external([principal |-> Some(S_alice),
                          capabilities |-> Some(<<" ",","," ">>),
                          constraints |-> None]).value,
     Principal(S_bob, <<S_tag_safe>>, {})}

\* environments of the resolver, and the requests it is given: the value of
\* the bearer dependency (None when there is no Authorization header) and
\* the delegated-trust headers
ResolverEnvs ==
    [ENABLE_MINT : {None}, ADMIN_TOKEN : {None},
     AUTH_MODE : {None, Some(<<" ","A","p","i","K","e","y">>),
                  Some(<<"e","x","t","e","r","n","a","l">>),
                  Some(<<"N","o","n","e"," ">>), Some(<<>>),
                  Some(<<"j","w","t">>)}]
Credentials ==
    {None} \cup
    [scheme : {<<"B","e","a","r","e","r">>, S_bearer, <<"B","a","s","i","c">>},
     credentials : Tokens \cup {<<>>}]
ResolverHeaders ==
    {[principal |-> None, capabilities |-> None, constraints |-> None],
     [principal |-> Some(S_alice), capabilities |-> Some(S_tool_x),
      constraints |-> None]}

-----------------------------------------------------------------------------
(* Credential store, one operation at a time *)

InitStore ==
    /\ file = json_dumps(EmptyDb)
    /\ now = 0
    /\ secret = "s3cr3t"
    /\ draws = 0
    /\ ret = NoRet
    /\ minted = {}
    /\ revokedOk = {}
    /\ pc = [p \in Procs |-> "idle"]
    /\ frame = [p \in Procs |-> None]
    /\ steps = <<>>

\* no tool registered, no handler invoked, no header, no variable set
NoHeaders == [principal |-> None, capabilities |-> None, constraints |-> None]
NoEnv == [ENABLE_MINT |-> None, ADMIN_TOKEN |-> None, AUTH_MODE |-> None]
InitRest ==
    /\ lastReg = <<>>
    /\ handled = <<>>
    /\ request = NoHeaders
    /\ env = NoEnv

Init ==
    /\ InitStore
    /\ InitRest
    /\ tools = <<>>
    /\ caller = NoCaller

Tick ==
    /\ now < MaxTime
    /\ now' = now + 1
    /\ UNCHANGED <<file, secret, draws, ret, minted, revokedOk, pc, frame, tools, caller,
                 lastReg, handled, request, env, steps>>

\* ApiKeyStore.mint_key
mint_key(principal_id, capabilities, constraints, expires_at) ==
    /\ draws' = draws + 1
    /\ IF _hmac_secret_raises
       THEN /\ ret' = Ret("mint", None, RuntimeError, SecretUnset, None)
            /\ UNCHANGED <<file, minted>>
       ELSE LET token == Token(draws')
                rec == StoredKey(KeyId(draws'), _hmac_digest(token, secret),
                                 principal_id, capabilities, constraints,
                                 now, expires_at)
            IN /\ file' = _write(MintAppend(_read, rec))
               /\ ret' = Ret("mint", None, "ok", "", token)
               /\ minted' = minted \cup
                    {MintEntry(token, principal_id, capabilities, constraints,
                               expires_at)}
    /\ UNCHANGED <<now, secret, revokedOk, pc, frame, tools, caller,
                 lastReg, handled, request, env, steps>>

\* mint_key, while fewer than MaxKeys tokens have been drawn
MintKey(principal_id, capabilities, constraints, expires_at) ==
    /\ draws < MaxKeys
    /\ mint_key(principal_id, capabilities, constraints, expires_at)

\* ApiKeyStore.revoke
Revoke(token) ==
    /\ IF _hmac_secret_raises
       THEN /\ ret' = Ret("revoke", token, RuntimeError, SecretUnset, None)
            /\ UNCHANGED <<file, revokedOk>>
       ELSE LET r == RevokeScan(_read, _hmac_digest(token, secret), now)
            IN /\ file' = IF r.changed THEN _write(r.db) ELSE file
               /\ ret' = Ret("revoke", token, "ok", "", r.changed)
               /\ revokedOk' = IF r.changed THEN revokedOk \cup {token}
                               ELSE revokedOk
    /\ UNCHANGED <<now, secret, draws, minted, pc, frame, tools, caller,
                 lastReg, handled, request, env, steps>>

\* ApiKeyStore.resolve
Resolve(token) ==
    /\ IF _hmac_secret_raises
       THEN /\ ret' = Ret("resolve", token, RuntimeError, SecretUnset, None)
            /\ UNCHANGED file
       ELSE LET r == ResolveScan(_read, 1, _hmac_digest(token, secret), now)
            IN /\ file' = IF r.write THEN _write(r.db) ELSE file
               /\ ret' = Ret("resolve", token, r.outcome, r.detail,
                             IF r.outcome = "ok" THEN r.principal ELSE None)
    /\ UNCHANGED <<now, secret, draws, minted, revokedOk, pc, frame, tools, caller,
                 lastReg, handled, request, env, steps>>

\* ToolRegistry.enforce_tool
EnforceTool(principal, tool) ==
    /\ LET r == enforce_tool(principal, tool)
       IN ret' = Ret("enforce_tool", [principal |-> principal, tool |-> tool],
                     r.outcome, r.detail, None)
    /\ UNCHANGED <<file, now, secret, draws, minted, revokedOk, pc, frame, tools, caller,
                 lastReg, handled, request, env, steps>>

\* call_tool: enforce_tool on the Principal that resolve has just returned
EnforceResolved(tool) ==
    /\ ret.op = "resolve"
    /\ ret.outcome = "ok"
    /\ EnforceTool(ret.value, tool)

Next ==
    \/ Tick
    \/ \E a \in MintArgs, e \in ExpiresArgs : MintKey(a[1], a[2], a[3], e)
    \/ \E token \in Tokens : Revoke(token)
    \/ \E token \in Tokens : Resolve(token)
    \/ \E tool \in E2ETools : EnforceResolved(tool)

Spec == Init /\ [][Next]_vars

-----------------------------------------------------------------------------
(* Credential store, overlapping requests.  Each request reads the file    *)
(* (_read) and writes it back (_write) in two separate steps; nothing in   *)
(* auth.py holds a lock between them.  The requests overlap within one     *)
(* reading of the clock.                                                   *)

Idle(p) == pc[p] = "idle"
Goto(p, label, locals) ==
    /\ pc' = [pc EXCEPT ![p] = label]
    /\ frame' = [frame EXCEPT ![p] = locals]

\* mint_key, lines 89-106: draw the token, build the record, read, append
MintBegin(p, principal_id, capabilities, constraints, expires_at) ==
    /\ Idle(p)
    /\ draws < NumProcs
    /\ draws' = draws + 1
    /\ IF _hmac_secret_raises
       THEN /\ ret' = Ret("mint", None, RuntimeError, SecretUnset, None)
            /\ UNCHANGED <<pc, frame>>
       ELSE LET token == Token(draws')
                rec == StoredKey(KeyId(draws'), _hmac_digest(token, secret),
                                 principal_id, capabilities, constraints,
                                 now, expires_at)
            IN /\ Goto(p, "mint_write",
                       [db |-> MintAppend(_read, rec),
                        entry |-> MintEntry(token, principal_id, capabilities,
                                            constraints, expires_at)])
               /\ UNCHANGED ret
    /\ UNCHANGED <<file, now, secret, minted, revokedOk, tools, caller,
                 lastReg, handled, request, env, steps>>

\* mint_key, lines 107-108: write back, return the token
MintEnd(p) ==
    /\ pc[p] = "mint_write"
    /\ file' = _write(frame[p].db)
    /\ minted' = minted \cup {frame[p].entry}
    /\ ret' = Ret("mint", None, "ok", "", frame[p].entry.token)
    /\ Goto(p, "idle", None)
    /\ UNCHANGED <<now, secret, draws, revokedOk, tools, caller,
                 lastReg, handled, request, env, steps>>

\* revoke, lines 111-118 (and 121 when nothing changed)
RevokeBegin(p, token) ==
    /\ Idle(p)
    /\ IF _hmac_secret_raises
       THEN /\ ret' = Ret("revoke", token, RuntimeError, SecretUnset, None)
            /\ UNCHANGED <<pc, frame>>
       ELSE LET r == RevokeScan(_read, _hmac_digest(token, secret), now)
            IN IF r.changed
               THEN /\ Goto(p, "revoke_write", [db |-> r.db, token |-> token])
                    /\ UNCHANGED ret
               ELSE /\ ret' = Ret("revoke", token, "ok", "", FALSE)
                    /\ UNCHANGED <<pc, frame>>
    /\ UNCHANGED <<file, now, secret, draws, minted, revokedOk, tools, caller,
                 lastReg, handled, request, env, steps>>

\* revoke, lines 119-121: write back, return True
RevokeEnd(p) ==
    /\ pc[p] = "revoke_write"
    /\ file' = _write(frame[p].db)
    /\ revokedOk' = revokedOk \cup {frame[p].token}
    /\ ret' = Ret("revoke", frame[p].token, "ok", "", TRUE)
    /\ Goto(p, "idle", None)
    /\ UNCHANGED <<now, secret, draws, minted, tools, caller,
                 lastReg, handled, request, env, steps>>

\* resolve, lines 124-146 (and the raise when the scan fails);
\* after_revoke records whether revoke(token) had returned True before
ResolveBegin(p, token) ==
    /\ Idle(p)
    /\ IF _hmac_secret_raises
       THEN /\ ret' = Ret("resolve", token, RuntimeError, SecretUnset, None)
            /\ UNCHANGED <<pc, frame>>
       ELSE LET r == ResolveScan(_read, 1, _hmac_digest(token, secret), now)
            IN IF r.write
               THEN /\ Goto(p, "resolve_write",
                            [db |-> r.db, token |-> token,
                             principal |-> r.principal,
                             after_revoke |-> token \in revokedOk])
                    /\ UNCHANGED ret
               ELSE /\ ret' = Ret("resolve", token, r.outcome, r.detail, None)
                    /\ UNCHANGED <<pc, frame>>
    /\ UNCHANGED <<file, now, secret, draws, minted, revokedOk, tools, caller,
                 lastReg, handled, request, env, steps>>

\* resolve, lines 147-157: write back, return the Principal
ResolveEnd(p) ==
    /\ pc[p] = "resolve_write"
    /\ file' = _write(frame[p].db)
    /\ ret' = Ret("resolve", frame[p].token, "ok", "", frame[p].principal)
    /\ Goto(p, "idle", None)
    /\ UNCHANGED <<now, secret, draws, minted, revokedOk, tools, caller,
                 lastReg, handled, request, env, steps>>

NextConc ==
    \/ \E p \in Procs, a \in MintArgs : MintBegin(p, a[1], a[2], a[3], None)
    \/ \E p \in Procs : MintEnd(p)
    \/ \E p \in Procs, token \in ConcTokens : RevokeBegin(p, token)
    \/ \E p \in Procs : RevokeEnd(p)
    \/ \E p \in Procs, token \in ConcTokens : ResolveBegin(p, token)
    \/ \E p \in Procs : ResolveEnd(p)

SpecConc == Init /\ [][NextConc]_vars

-----------------------------------------------------------------------------
(* Credential store with several records, and a process environment that   *)
(* may lose DYNAMIC_MCP_APIKEY_HMAC_SECRET (each operation reads it anew). *)

RecTokens == {Token(n) : n \in 0..MaxRecords}

\* mint_key without expires_at
MintRecord(principal_id, capabilities, constraints) ==
    /\ draws < MaxRecords
    /\ mint_key(principal_id, capabilities, constraints, None)

\* the variable is removed from os.environ
UnsetSecret ==
    /\ secret # ""
    /\ secret' = ""
    /\ UNCHANGED <<file, now, draws, ret, minted, revokedOk, pc, frame, tools, caller,
                   lastReg, handled, request, env, steps>>

NextRecords ==
    \/ UnsetSecret
    \/ \E a \in MintArgs : MintRecord(a[1], a[2], a[3])
    \/ \E token \in RecTokens : Revoke(token)
    \/ \E token \in RecTokens : Resolve(token)

SpecRecords == Init /\ [][NextRecords]_vars

-----------------------------------------------------------------------------
(* Credential store on a file system that may refuse the write of resolve *)

\* ApiKeyStore.resolve, when self._write(db) raises
ResolveWriteFails(token, how) ==
    /\ StoreReadable
    /\ IF _hmac_secret_raises
       THEN /\ ret' = Ret("resolve", token, RuntimeError, SecretUnset, None)
            /\ UNCHANGED file
       ELSE LET r == ResolveScan(_read, 1, _hmac_digest(token, secret), now)
                a == AfterWrite(r, r.write)
            IN /\ file' = IF r.write THEN FileAfterFailedWrite(file, how)
                          ELSE file
               /\ ret' = Ret("resolve", token, a.outcome, a.detail, a.value)
    /\ UNCHANGED <<now, secret, draws, minted, revokedOk, pc, frame, tools, caller,
                   lastReg, handled, request, env, steps>>

\* ApiKeyStore.resolve, when self._read() raises
ResolveUnreadable(token) ==
    /\ ~StoreReadable
    /\ ret' = Ret("resolve", token,
                  IF _hmac_secret_raises THEN RuntimeError ELSE JSONDecodeError,
                  IF _hmac_secret_raises THEN SecretUnset ELSE "", None)
    /\ UNCHANGED <<file, now, secret, draws, minted, revokedOk, pc, frame, tools,
                   caller, lastReg, handled, request, env, steps>>

NextWriteFails ==
    \/ Tick
    \/ StoreReadable /\ \E a \in MintArgs, e \in ExpiresArgs :
                            MintKey(a[1], a[2], a[3], e)
    \/ StoreReadable /\ \E token \in Tokens : Revoke(token)
    \/ StoreReadable /\ \E token \in Tokens : Resolve(token)
    \/ \E token \in Tokens, how \in WriteFailures : ResolveWriteFails(token, how)
    \/ \E token \in Tokens : ResolveUnreadable(token)

SpecWriteFails == Init /\ [][NextWriteFails]_vars

-----------------------------------------------------------------------------
(* Tool registry and capability matcher, for one caller *)

InitAuthz ==
    /\ InitStore
    /\ InitRest
    /\ tools = <<>>
    /\ caller \in Callers

Put_KeepFirst(reg, t) ==
    IF t.name \in DOMAIN reg THEN reg
    ELSE [n \in DOMAIN reg \cup {t.name} |-> IF n = t.name THEN t ELSE reg[n]]

Put_MergeTags(reg, t) ==
    [n \in DOMAIN reg \cup {t.name} |->
        IF n # t.name THEN reg[n]
        ELSE IF n \in DOMAIN reg THEN [t EXCEPT !.tags = reg[n].tags]
        ELSE t]

\* self._tools[tool_name] = t
Put(reg, t) ==
    [n \in DOMAIN reg \cup {t.name} |-> IF n = t.name THEN t ELSE reg[n]]

\* ToolRegistry.register
Register(fn, name, description, required_caps, tags) ==
    /\ LET t == ToolDef(fn, name, description, required_caps, tags)
       IN /\ tools' = Put(tools, t)
          /\ ret' = Ret("register", t.name, "ok", "", t)
    /\ lastReg' = [n \in DOMAIN lastReg \cup {ToolName(fn, name)} |->
                      IF n = ToolName(fn, name)
                      THEN <<fn, name, description, required_caps, tags>>
                      ELSE lastReg[n]]
    /\ UNCHANGED <<file, now, secret, draws, minted, revokedOk, pc, frame, caller,
                   handled, request, env, steps>>

\* ToolRegistry._principal_has
PrincipalHas(principal, required) ==
    /\ ret' = Ret("_principal_has",
                  [principal |-> principal, required |-> required],
                  "ok", "", _principal_has(principal, required))
    /\ UNCHANGED <<file, now, secret, draws, minted, revokedOk, pc, frame, tools, caller,
                 lastReg, handled, request, env, steps>>

\* ToolRegistry.authorize_action
AuthorizeAction(principal, action) ==
    /\ LET r == authorize_action(principal, action)
       IN ret' = Ret("authorize_action",
                     [principal |-> principal, action |-> action],
                     r.outcome, r.detail, None)
    /\ UNCHANGED <<file, now, secret, draws, minted, revokedOk, pc, frame, tools, caller,
                 lastReg, handled, request, env, steps>>

NextAuthz ==
    \/ \E a \in RegisterArgs : Register(a[1], a[2], a[3], a[4], a[5])
    \/ \E required \in RequiredStrings : PrincipalHas(caller, required)
    \/ \E action \in Actions : AuthorizeAction(caller, action)
    \/ \E n \in DOMAIN tools : EnforceTool(caller, tools[n])

SpecAuthz == InitAuthz /\ [][NextAuthz]_vars

-----------------------------------------------------------------------------
(* Capability matcher and enforce_tool, for callers without capabilities *)

InitNoCaps ==
    /\ InitStore
    /\ InitRest
    /\ tools = <<>>
    /\ caller \in NoCapsCallers

NextNoCaps ==
    \/ \E a \in OpenRegisterArgs : Register(a[1], a[2], a[3], a[4], a[5])
    \/ \E required \in RequiredStrings : PrincipalHas(caller, required)
    \/ \E action \in Actions : AuthorizeAction(caller, action)
    \/ \E n \in DOMAIN tools : EnforceTool(caller, tools[n])

SpecNoCaps == InitNoCaps /\ [][NextNoCaps]_vars

-----------------------------------------------------------------------------
(* Tool registry: register, get and call *)

InitCall ==
    /\ InitStore
    /\ InitRest
    /\ tools = <<>>
    /\ caller = CallCaller

\* ToolRegistry.get
Get(name) ==
    /\ ret' = IF name \in DOMAIN tools
              THEN Ret("get", name, "ok", "", tools[name])
              ELSE Ret("get", name, KeyError, "", None)
    /\ UNCHANGED <<file, now, secret, draws, minted, revokedOk, pc, frame, tools, caller,
                   lastReg, handled, request, env, steps>>

\* ToolRegistry.call
Call(tool, args, principal) ==
    /\ LET r == call(tool, args, principal)
       IN /\ r.outcome = "ok" => Len(handled) < MaxCalls
          /\ handled' = IF r.outcome = "ok" THEN Append(handled, r.invoked)
                        ELSE handled
          /\ ret' = Ret("call",
                        [tool |-> tool, args |-> args, principal |-> principal],
                        r.outcome, r.detail, r.value)
    /\ UNCHANGED <<file, now, secret, draws, minted, revokedOk, pc, frame, tools, caller,
                   lastReg, request, env, steps>>

\* ToolRegistry.call, when the handler raises
CallRaises(tool, args, principal) ==
    /\ LET r == call_raising(tool, args, principal)
       IN /\ r.outcome = HandlerError
          /\ Len(handled) < MaxCalls
          /\ handled' = handled \o r.invoked
          /\ ret' = Ret("call",
                        [tool |-> tool, args |-> args, principal |-> principal],
                        r.outcome, r.detail, r.value)
    /\ UNCHANGED <<file, now, secret, draws, minted, revokedOk, pc, frame, tools, caller,
                   lastReg, request, env, steps>>

NextCall ==
    \/ \E a \in CallRegisterArgs : Register(a[1], a[2], a[3], a[4], a[5])
    \/ \E name \in GetNames : Get(name)
    \/ \E n \in DOMAIN tools, args \in CallArgs : Call(tools[n], args, caller)
    \/ \E n \in DOMAIN tools, args \in CallArgs :
          CallRaises(tools[n], args, caller)

SpecCall == InitCall /\ [][NextCall]_vars

-----------------------------------------------------------------------------
(* The call_tool route, for each caller *)

InitRoute ==
    /\ InitStore
    /\ InitRest
    /\ tools = <<>>
    /\ caller \in RouteCallers

\* app.py, call_tool
CallTool(name, arguments, raises) ==
    /\ LET r == call_tool(tools, name, arguments, caller, raises)
       IN /\ r.invoked # <<>> => Len(handled) < MaxCalls
          /\ handled' = handled \o r.invoked
          /\ steps' = r.steps
          /\ ret' = Ret("call_tool",
                        [name |-> name, arguments |-> arguments,
                         principal |-> caller, raises |-> raises],
                        r.outcome, r.detail, r.value)
    /\ UNCHANGED <<file, now, secret, draws, minted, revokedOk, pc, frame, tools, caller,
                   lastReg, request, env>>

NextRoute ==
    \/ \E a \in CallRegisterArgs : Register(a[1], a[2], a[3], a[4], a[5])
    \/ \E name \in GetNames, arguments \in RouteArgs, raises \in BOOLEAN :
          CallTool(name, arguments, raises)

SpecRoute == InitRoute /\ [][NextRoute]_vars

-----------------------------------------------------------------------------
(* Tool registry, overlapping register calls.  register builds its ToolDef *)
(* in a local variable and stores it with one dict assignment; get and     *)
(* list read the dict in one step.                                         *)

\* register, lines 46-84: everything up to the ToolDef t
RegisterBegin(p, fn, name, description, required_caps, tags) ==
    /\ Idle(p)
    /\ Goto(p, "register_store",
            [t |-> ToolDef(fn, name, description, required_caps, tags),
             args |-> <<fn, name, description, required_caps, tags>>])
    /\ UNCHANGED <<file, now, secret, draws, ret, minted, revokedOk, tools, caller,
                   lastReg, handled, request, env, steps>>

\* register, lines 85-86: self._tools[tool_name] = t; return t
RegisterEnd(p) ==
    /\ pc[p] = "register_store"
    /\ tools' = Put(tools, frame[p].t)
    /\ ret' = Ret("register", frame[p].t.name, "ok", "", frame[p].t)
    /\ lastReg' = [n \in DOMAIN lastReg \cup {frame[p].t.name} |->
                      IF n = frame[p].t.name THEN frame[p].args ELSE lastReg[n]]
    /\ Goto(p, "idle", None)
    /\ UNCHANGED <<file, now, secret, draws, minted, revokedOk, caller,
                   handled, request, env, steps>>

\* ToolRegistry.list: the definitions held, here without their order
List ==
    /\ ret' = Ret("list", None, "ok", "", {tools[n] : n \in DOMAIN tools})
    /\ UNCHANGED <<file, now, secret, draws, minted, revokedOk, pc, frame, tools, caller,
                   lastReg, handled, request, env, steps>>

NextRegisterConc ==
    \/ \E p \in Procs, a \in CallRegisterArgs :
          RegisterBegin(p, a[1], a[2], a[3], a[4], a[5])
    \/ \E p \in Procs : RegisterEnd(p)
    \/ \E name \in GetNames : Get(name)
    \/ List

SpecRegisterConc == InitCall /\ [][NextRegisterConc]_vars

-----------------------------------------------------------------------------
(* Delegated trust: the resolver applied to the headers of a request *)

InitExternal ==
    /\ InitStore
    /\ lastReg = <<>>
    /\ handled = <<>>
    /\ request \in Requests
    /\ env = NoEnv
    /\ tools = <<>>
    /\ caller = NoCaller

\* _principal_external(request)
PrincipalExternal ==
    /\ LET r == _principal_external(request)
       IN ret' = Ret("_principal_external", request, r.outcome, r.detail, r.value)
    /\ UNCHANGED <<file, now, secret, draws, minted, revokedOk, pc, frame, tools, caller,
                   lastReg, handled, request, env, steps>>

NextExternal == PrincipalExternal

SpecExternal == InitExternal /\ [][NextExternal]_vars

-----------------------------------------------------------------------------
(* The mint endpoint, under each environment *)

InitMint ==
    /\ InitStore
    /\ lastReg = <<>>
    /\ handled = <<>>
    /\ request = NoHeaders
    /\ env \in Envs
    /\ tools = <<>>
    /\ caller = NoCaller

\* app.py, mint: the three gates raise 404, 401 and 400; then mint_api_key,
\* whose token is returned as Token.access_token
MintEndpoint(principal_id, capabilities, ttl_seconds, admin_token) ==
    LET refuse(outcome, detail) ==
            /\ ret' = Ret("auth_mint",
                          [principal_id |-> principal_id,
                           capabilities |-> capabilities,
                           ttl_seconds |-> ttl_seconds,
                           admin_token |-> admin_token],
                          outcome, detail, None)
            /\ UNCHANGED <<file, now, secret, draws, minted, revokedOk, pc, frame,
                           tools, caller, lastReg, handled, request, env, steps>>
    IN IF Get_or(env.ENABLE_MINT, "0") # "1"
       THEN refuse("NotFound", "Not found")
       ELSE IF AdminTokenRefused(Get_or(env.ADMIN_TOKEN, ""), admin_token)
       THEN refuse("Unauthorized", "Unauthorized")
       ELSE IF get_auth_mode # S_apikey
       THEN refuse("BadRequest", "Minting only supported in apikey mode")
       ELSE /\ draws < MaxKeys
            /\ mint_key(principal_id, capabilities, None,
                        Some(now + ttl_seconds))

NextMint ==
    \/ \E a \in MintArgs, ttl \in TtlSeconds, admin_token \in AdminTokens :
          MintEndpoint(a[1], a[2], ttl, admin_token)
    \/ \E token \in Tokens : Resolve(token)

SpecMint == InitMint /\ [][NextMint]_vars

-----------------------------------------------------------------------------
(* The resolver of the current Principal, under each auth mode *)

InitResolver ==
    /\ InitStore
    /\ lastReg = <<>>
    /\ handled = <<>>
    /\ request = NoHeaders
    /\ env \in ResolverEnvs
    /\ tools = <<>>
    /\ caller = NoCaller

\* get_current_principal(request, creds)
GetCurrentPrincipal(headers, creds) ==
    LET done(outcome, detail, value) ==
            /\ ret' = Ret("get_current_principal",
                          [headers |-> headers, creds |-> creds],
                          outcome, detail, value)
            /\ UNCHANGED <<file, now, secret, draws, minted, revokedOk, pc, frame,
                           tools, caller, lastReg, handled, request, env, steps>>
        external == _principal_external(headers)
    IN IF get_auth_mode = S_none
       THEN done("ok", "", _principal_noauth)
       ELSE IF get_auth_mode = S_external
       THEN done(external.outcome, external.detail, external.value)
       ELSE IF get_auth_mode # S_apikey
       THEN done("InternalError", "Unknown auth mode", None)
       ELSE IF BearerMissing(creds)
       THEN done("Unauthorized", "Missing bearer token", None)
       ELSE Resolve(creds.credentials)

NextResolver ==
    \/ \E a \in MintArgs : MintKey(a[1], a[2], a[3], None)
    \/ \E headers \in ResolverHeaders, creds \in Credentials :
          GetCurrentPrincipal(headers, creds)

SpecResolver == InitResolver /\ [][NextResolver]_vars

-----------------------------------------------------------------------------
(* Properties of the credential store *)

Keys == _read.keys
UsedTokens == {m.token : m \in minted}
RecordsOf(token) ==
    {i \in DOMAIN Keys : Keys[i].token_hmac = _hmac_digest(token, secret)}

\* what mint_key was given for a token, and whether that has expired at t
MintedAs(token) == CHOOSE m \in minted : m.token = token
ConstraintsGiven(m) == IF m.constraints = None THEN {} ELSE m.constraints[1]
ExpiredAt(m, t) == m.expires_at # None /\ m.expires_at[1] < t

\* C1: when operations run one at a time, once revoke(token) has returned
\* True no record loses its revoked_at, every later resolve(token) fails
\* with Unauthorized, every later revoke(token) returns False without error,
\* and revoke of a token that no mint returned returns False.
C1_RevokeIsFinal ==
    [][ /\ \A i \in DOMAIN Keys :
              Truthy(Keys[i].revoked_at) =>
                 /\ i \in DOMAIN Keys'
                 /\ Keys'[i].revoked_at = Keys[i].revoked_at
        /\ \A token \in Tokens :
              /\ (token \in revokedOk /\ Resolve(token)) =>
                    /\ ret'.outcome = "Unauthorized"
                    /\ ret'.value = None
              /\ (token \in revokedOk /\ Revoke(token)) =>
                    /\ ret'.outcome = "ok"
                    /\ ret'.value = FALSE
              /\ (token \notin UsedTokens /\ Revoke(token)) =>
                    /\ ret'.outcome = "ok"
                    /\ ret'.value = FALSE
      ]_vars

\* a resolve of a token whose revoke had returned True was refused as revoked
C1_Witness ==
    /\ ret.op = "resolve"
    /\ ret.arg \in revokedOk
    /\ ret.outcome = "Unauthorized"
    /\ ret.detail = "API key revoked"

C5_ExpiredIsRefused ==
    [][ /\ now' >= now
        /\ \A i \in DOMAIN Keys :
              i \in DOMAIN Keys' /\ Keys'[i].expires_at = Keys[i].expires_at
        /\ \A token \in UsedTokens :
              /\ (Resolve(token) /\ ExpiredAt(MintedAs(token), now)) =>
                    /\ ret'.outcome = "Unauthorized"
                    /\ ret'.value = None
              /\ (Resolve(token) /\ MintedAs(token).expires_at = None) =>
                    ret'.detail # "API key expired"
      ]_vars

\* an unrevoked credential has been refused because it expired
C5_Witness ==
    /\ ret.op = "resolve"
    /\ ret.outcome = "Unauthorized"
    /\ ret.detail = "API key expired"
    /\ ret.arg \notin revokedOk

\* C6: resolve returns a Principal only when a stored record's digest is the
\* keyed digest of the presented token; for a token that no mint returned it
\* fails with Unauthorized and leaves the store as it was.
C6_UnknownTokenRefused ==
    [][ \A token \in Tokens :
          /\ (Resolve(token) /\ ret'.outcome = "ok") => RecordsOf(token) # {}
          /\ (Resolve(token) /\ token \notin UsedTokens) =>
                /\ ret'.outcome = "Unauthorized"
                /\ ret'.detail = "Invalid API key"
                /\ ret'.value = None
                /\ file' = file
      ]_vars

\* a token that no mint returned has been refused by a store that holds a
\* usable credential
C6_Witness ==
    /\ ret.op = "resolve"
    /\ ret.arg \notin UsedTokens
    /\ ret.detail = "Invalid API key"
    /\ \E i \in DOMAIN Keys :
          ~Truthy(Keys[i].revoked_at) /\ ~Truthy(Keys[i].expires_at)

\* C2: when mint, revoke and resolve of different requests overlap, no
\* update is lost: once every request has finished, the record of every
\* mint that returned is in the store.
C2_NoMintIsLost ==
    (\A p \in Procs : Idle(p)) =>
        \A m \in minted : RecordsOf(m.token) # {}

\* C3: when revoke overlaps with resolve or mint, once revoke(token) has
\* returned True the record keeps its revoked_at, and no resolve(token) that
\* starts afterwards gets past the revoked check.
C3_RevokeSurvivesOverlap ==
    /\ \A token \in revokedOk :
          /\ RecordsOf(token) # {}
          /\ \A i \in RecordsOf(token) : Truthy(Keys[i].revoked_at)
    /\ \A p \in Procs :
          pc[p] = "resolve_write" => ~frame[p].after_revoke

-----------------------------------------------------------------------------
(* Properties of the capability matcher and of enforce_tool *)

\* the grant relation as the documentation states it
GrantedBy(capabilities, required) ==
    \E i \in DOMAIN capabilities :
        \/ capabilities[i] = S_star
        \/ capabilities[i] = S_admin_star
        \/ fnmatch(required, capabilities[i])
        \/ fnmatch(capabilities[i], required)

HoldsStar(principal) ==
    \E i \in DOMAIN principal.capabilities : principal.capabilities[i] = S_star

\* C7: _principal_has grants a requested string R exactly when some held
\* capability P is "*" or "admin:*", or R glob-matches P, or P glob-matches R;
\* so "tool:math:*" grants "tool:math:add" and "tool:math:add" alone grants
\* "tool:math:*".
C7_MatcherBothWays ==
    ret.op = "_principal_has" =>
        LET held == ret.arg.principal.capabilities
            required == ret.arg.required
        IN /\ ret.value = GrantedBy(held, required)
           /\ (held = <<S_tool_math_star>> /\ required = S_tool_math_add) =>
                 ret.value = TRUE
           /\ (held = <<S_tool_math_add>> /\ required = S_tool_math_star) =>
                 ret.value = TRUE

\* the holder of only "tool:math:add" has been granted "tool:math:*"
C7_Witness ==
    /\ ret.op = "_principal_has"
    /\ ret.arg.principal.capabilities = <<S_tool_math_add>>
    /\ ret.arg.required = S_tool_math_star
    /\ ret.value = TRUE

\* C8: a principal whose capability list contains "*" passes
\* authorize_action for every action and enforce_tool for every registered
\* tool, whatever the tool requires and whatever else the principal holds.
C8_StarPassesEverything ==
    (/\ ret.op \in {"authorize_action", "enforce_tool"}
     /\ HoldsStar(ret.arg.principal)) => ret.outcome = "ok"

\* a principal holding "*" after a capability that grants nothing here has
\* passed enforce_tool for a tool whose capability and tag it does not hold
C8_Witness ==
    /\ ret.op = "enforce_tool"
    /\ ret.arg.principal.capabilities = <<S_tool_math_add, S_star>>
    /\ ret.arg.tool.required_caps = <<S_tool_secret_read>>
    /\ ret.arg.tool.tags = <<T_dangerous>>
    /\ ret.outcome = "ok"

\* C9: enforce_tool succeeds exactly when the principal's capabilities grant
\* one of the tool's required_caps or "tag:<T>" for one of its tags, and
\* raises Forbidden otherwise; so the holder of only "tag:safe" passes for a
\* tool with tags [safe] that requires [tool:x].
C9_EnforceToolEitherGate ==
    ret.op = "enforce_tool" =>
        LET held == ret.arg.principal.capabilities
            tool == ret.arg.tool
            gate == \/ \E i \in DOMAIN tool.required_caps :
                          GrantedBy(held, tool.required_caps[i])
                    \/ \E i \in DOMAIN tool.tags :
                          GrantedBy(held, TagCap(tool.tags[i]))
        IN /\ ret.outcome = IF gate THEN "ok" ELSE Forbidden
           /\ (/\ held = <<S_tag_safe>>
               /\ tool.tags = <<T_safe>>
               /\ tool.required_caps = <<S_tool_x>>) => ret.outcome = "ok"

\* the holder of only "tag:safe" has passed for the tool with tags [safe]
\* that requires [tool:x]
C9_Witness ==
    /\ ret.op = "enforce_tool"
    /\ ret.arg.principal.capabilities = <<S_tag_safe>>
    /\ ret.arg.tool.tags = <<T_safe>>
    /\ ret.arg.tool.required_caps = <<S_tool_x>>
    /\ ret.outcome = "ok"

\* C10: the Principal that resolve returns for a token minted with
\* principal_id demo and capabilities [tool:math:*, tools:call] passes
\* enforce_tool for the tool add requiring [tool:math:add], and is refused
\* with Forbidden for the tool requiring [tool:secret:read] none of whose
\* tags it holds.
C10_EndToEnd ==
    [][ (/\ ret.op = "resolve"
         /\ ret.outcome = "ok"
         /\ MintedAs(ret.arg).principal_id = "demo"
         /\ MintedAs(ret.arg).capabilities = <<S_tool_math_star, S_tools_call>>) =>
            /\ EnforceResolved(Tool_add) => ret'.outcome = "ok"
            /\ EnforceResolved(Tool_read_secret) => ret'.outcome = Forbidden
      ]_vars

\* the resolved demo principal has been refused the tool requiring
\* [tool:secret:read]
C10_Witness ==
    /\ ret.op = "enforce_tool"
    /\ ret.arg.principal.principal_id = "demo"
    /\ ret.arg.principal.capabilities = <<S_tool_math_star, S_tools_call>>
    /\ ret.arg.tool.required_caps = <<S_tool_secret_read>>
    /\ ret.outcome = Forbidden

-----------------------------------------------------------------------------
(* Properties of register, get and call *)

FieldNames(tool) == {tool.input_model[i].name : i \in DOMAIN tool.input_model}
RequiredFields(tool) ==
    {tool.input_model[i].name :
        i \in {j \in DOMAIN tool.input_model : tool.input_model[j].default = None}}
ReservedNames == {"principal", "user"}

\* the name a register call registers under, and what it asks for
NameGiven(a) == IF a[2] # None THEN a[2] ELSE a[1].__name__
DocGiven(a) == IF a[1].__doc__ = None THEN <<>> ELSE strip(a[1].__doc__)
DescriptionGiven(a) ==
    IF a[3] # None THEN a[3]
    ELSE IF DocGiven(a) # <<>> THEN DocGiven(a)
    ELSE <<"T","o","o","l"," ">> \o NameGiven(a)
CapsGiven(a) ==
    IF a[4] # <<>> THEN a[4] ELSE << <<"t","o","o","l",":">> \o NameGiven(a) >>

\* C11: call with a required field of the tool's input contract missing
\* from the arguments fails with ValidationError, whose error list names
\* each missing field, and the handler is not invoked: the log of handler
\* invocations is as it was.
C11_MissingRequiredFails ==
    [][ \A n \in DOMAIN tools, args \in CallArgs :
          (/\ ret'.op = "call"
           /\ Call(tools[n], args, caller)
           /\ RequiredFields(tools[n]) \ DOMAIN args # {}) =>
              /\ ret'.outcome = ValidationError
              /\ handled' = handled
              /\ \A f \in RequiredFields(tools[n]) \ DOMAIN args :
                    \E i \in DOMAIN ret'.value :
                        ret'.value[i] = [loc |-> f, type |-> "missing"]
      ]_vars

\* add has been called with a alone, after a handler had been invoked: the
\* call failed naming b, and the log still holds that one invocation
C11_Witness ==
    /\ ret.op = "call"
    /\ ret.arg.tool.fn = Fn_add
    /\ ret.arg.args = [a |-> V_int1]
    /\ ret.outcome = ValidationError
    /\ ret.value = << [loc |-> "b", type |-> "missing"] >>
    /\ Len(handled) = 1

\* C12: call rejects with ValidationError, without invoking the handler,
\* every arguments mapping with a key that is not a field of the tool's input
\* contract.
C12_UnknownKeyRejected ==
    [][ \A n \in DOMAIN tools, args \in CallArgs :
          (/\ ret'.op = "call"
           /\ Call(tools[n], args, caller)
           /\ DOMAIN args \ FieldNames(tools[n]) # {}) =>
              /\ ret'.outcome = ValidationError
              /\ handled' = handled
      ]_vars

\* C13: for a handler that declares a parameter named principal or user,
\* register leaves that parameter out of the input contract, so a call whose
\* arguments satisfy the other fields and do not hold it passes validation,
\* and the handler receives the calling Principal under that name.
C13_ReservedParamInjected ==
    [][ \A n \in DOMAIN tools, args \in CallArgs, pname \in ReservedNames :
          (/\ HasParam(tools[n].fn, pname)
           /\ pname \notin DOMAIN args
           /\ Errors(SelectSeq(tools[n].input_model,
                               LAMBDA f : f.name \notin ReservedNames),
                     args) = <<>>
           /\ ret'.op = "call"
           /\ Call(tools[n], args, caller)) =>
              /\ pname \notin FieldNames(tools[n])
              /\ ret'.outcome = "ok"
              /\ handled' # handled
              /\ handled'[Len(handled')].kwargs[pname] = caller
      ]_vars

\* C14: get(X) returns the definition made by the latest register under X:
\* its name is X and its description, handler, input contract, required
\* capabilities and tags are those of that call alone; get of a name never
\* registered fails (KeyError, which the routes turn into 404 Not Found).
C14_GetReturnsLatest ==
    [][ \A X \in GetNames :
          (ret'.op = "get" /\ Get(X)) =>
             IF X \in DOMAIN lastReg
             THEN LET a == lastReg[X]
                  IN /\ NameGiven(a) = X
                     /\ ret'.outcome = "ok"
                     /\ ret'.value.name = X
                     /\ ret'.value.fn = a[1]
                     /\ ret'.value.description = DescriptionGiven(a)
                     /\ ret'.value.required_caps = CapsGiven(a)
                     /\ ret'.value.tags = a[5]
                     /\ ret'.value.input_model = InputFields(a[1])
             ELSE ret'.outcome = KeyError
      ]_vars

\* get(add) has returned the definition of the second registration under
\* add, with handler greet and none of the first one's tags, after the first
\* one's handler add had been invoked
C14_Witness ==
    /\ ret.op = "get"
    /\ ret.arg = N_add
    /\ ret.outcome = "ok"
    /\ ret.value.fn = Fn_greet
    /\ ret.value.tags = <<T_dangerous>>
    /\ \E i \in DOMAIN handled : handled[i].fn = N_add

\* C15: every definition the registry holds has a non-empty required_caps:
\* register stores the list it is given when that is non-empty, and exactly
\* [tool:<name>] when it is given none or an empty one.
C15_RequiredCapsNonEmpty ==
    [][ /\ \A n \in DOMAIN tools' : tools'[n].required_caps # <<>>
        /\ \A a \in CallRegisterArgs :
              (ret'.op = "register" /\ Register(a[1], a[2], a[3], a[4], a[5])) =>
                 /\ NameGiven(a) \in DOMAIN tools'
                 /\ tools'[NameGiven(a)].required_caps =
                       IF a[4] # <<>> THEN a[4]
                       ELSE << <<"t","o","o","l",":">> \o NameGiven(a) >>
      ]_vars

\* the registry holds whoami, registered without required_caps, under
\* [tool:whoami], and greet under the list it was given
C15_Witness ==
    /\ N_whoami \in DOMAIN tools
    /\ lastReg[N_whoami][4] = None
    /\ tools[N_whoami].required_caps =
          << <<"t","o","o","l",":","w","h","o","a","m","i">> >>
    /\ N_greet \in DOMAIN tools
    /\ tools[N_greet].required_caps = <<S_tool_x>>

-----------------------------------------------------------------------------
(* Properties of the records of the credential store *)

\* the fields of a record that mint_key sets for good
Immutable(k) ==
    <<k.key_id, k.token_hmac, k.principal_id, k.capabilities, k.constraints,
      k.created_at, k.expires_at>>
Matches(k, token) == k.token_hmac = _hmac_digest(token, secret)

\* C16: with no secret configured, mint_key fails with the configuration
\* error (RuntimeError), returns no token and appends no record; resolve and
\* revoke fail the same way, return nothing and leave the file as it is; and
\* no record ever holds a digest computed under an empty key.
C16_NoSecretNoService ==
    [][ /\ (secret = "" /\ ret'.op \in {"mint", "revoke", "resolve"}) =>
              /\ ret'.outcome = RuntimeError
              /\ ret'.detail = SecretUnset
              /\ ret'.value = None
              /\ file' = file
              /\ minted' = minted
              /\ revokedOk' = revokedOk
        /\ \A i \in DOMAIN Keys', token \in RecTokens :
              Keys'[i].token_hmac # _hmac_digest(token, "")
      ]_vars

\* resolve of a token whose unrevoked record is in the store has failed with
\* the configuration error after the secret was lost
C16_Witness ==
    /\ secret = ""
    /\ ret.op = "resolve"
    /\ ret.outcome = RuntimeError
    /\ \E i \in DOMAIN Keys :
          /\ Keys[i].token_hmac = _hmac_digest(ret.arg, "s3cr3t")
          /\ ~Truthy(Keys[i].revoked_at)

\* C17: over mint, revoke and resolve run one at a time: no record is ever
\* removed and the fields set by mint never change; mint appends one record
\* and touches no other; revoke changes only revoked_at, and only of records
\* whose digest is that of the presented token; a successful resolve changes
\* only last_used_at of the matching record; a failing resolve and a revoke
\* that returns False change nothing.
C17_FrameOfStoreOps ==
    [][ /\ Len(Keys') >= Len(Keys)
        /\ \A i \in DOMAIN Keys : Immutable(Keys'[i]) = Immutable(Keys[i])
        /\ (ret'.op = "mint" /\ \E a \in MintArgs : MintRecord(a[1], a[2], a[3])) =>
              /\ Len(Keys') = IF ret'.outcome = "ok" THEN Len(Keys) + 1
                              ELSE Len(Keys)
              /\ \A i \in DOMAIN Keys : Keys'[i] = Keys[i]
        /\ \A token \in RecTokens :
              /\ (ret'.op = "revoke" /\ Revoke(token)) =>
                    /\ Len(Keys') = Len(Keys)
                    /\ \A i \in DOMAIN Keys :
                          /\ [Keys'[i] EXCEPT !.revoked_at = None] =
                                [Keys[i] EXCEPT !.revoked_at = None]
                          /\ ~Matches(Keys[i], token) => Keys'[i] = Keys[i]
                    /\ (ret'.outcome # "ok" \/ ret'.value = FALSE) => file' = file
              /\ (ret'.op = "resolve" /\ Resolve(token)) =>
                    /\ Len(Keys') = Len(Keys)
                    /\ \A i \in DOMAIN Keys :
                          /\ [Keys'[i] EXCEPT !.last_used_at = None] =
                                [Keys[i] EXCEPT !.last_used_at = None]
                          /\ ~Matches(Keys[i], token) => Keys'[i] = Keys[i]
                    /\ ret'.outcome # "ok" => file' = file
      ]_vars

\* the store holds two records, one revoked and never used, the other used
\* and not revoked
C17_Witness ==
    /\ Len(Keys) = 2
    /\ \E i, j \in DOMAIN Keys :
          /\ Truthy(Keys[i].revoked_at) /\ ~Truthy(Keys[i].last_used_at)
          /\ Truthy(Keys[j].last_used_at) /\ ~Truthy(Keys[j].revoked_at)

\* C18: no field of a stored record is a raw token that mint_key returned:
\* token_hmac is the digest of one returned token under the secret, no two
\* records share it, and principal_id, capabilities and constraints are what
\* the caller of that mint gave.
C18_RawTokenNeverStored ==
    /\ \A i \in DOMAIN Keys, token \in UsedTokens :
          /\ Keys[i].token_hmac # token
          /\ Keys[i].key_id # token
          /\ Keys[i].created_at # token
          /\ Keys[i].expires_at # token
          /\ Keys[i].revoked_at # token
          /\ Keys[i].last_used_at # token
    /\ \A i \in DOMAIN Keys :
          \E m \in minted :
             /\ Keys[i].token_hmac = <<"hmac_sha256", m.token, "s3cr3t">>
             /\ Keys[i].principal_id = m.principal_id
             /\ Keys[i].capabilities = m.capabilities
             /\ Keys[i].constraints = ConstraintsGiven(m)
    /\ \A i, j \in DOMAIN Keys :
          i # j => Keys[i].token_hmac # Keys[j].token_hmac

\* two tokens have been returned, and the record of one has been revoked and
\* that of the other stamped by a resolve
C18_Witness ==
    /\ Cardinality(UsedTokens) = 2
    /\ ret.op = "resolve"
    /\ ret.outcome = "ok"
    /\ \E i \in DOMAIN Keys : Truthy(Keys[i].revoked_at)
    /\ \E i \in DOMAIN Keys : Truthy(Keys[i].last_used_at)

-----------------------------------------------------------------------------
(* Properties of the delegated-trust resolver and of the mint endpoint *)

\* a header that is there and holds a JSON object
IsJsonObject(text) == strip(text) \in {J_region, J_empty_object}
\* the patterns between the commas of the capabilities header
PatternsOf(h) ==
    IF h = None \/ strip(h[1]) = <<>> THEN <<>>
    ELSE IF h[1] = S_tool_x THEN <<S_tool_x>>
    ELSE <<S_tool_x, S_tag_safe>>

\* C19: _principal_external fails with Unauthorized when the identity header
\* is absent or blank, and whenever the constraints header is present (and
\* not blank) but is not a valid JSON object; otherwise it returns a Principal with the
\* header's stripped identity and the comma-separated capability patterns.
C19_ExternalResolver ==
    ret.op = "_principal_external" =>
        LET h == ret.arg
            noIdentity == h.principal = None \/ strip(h.principal[1]) = <<>>
            badConstraints ==
                /\ h.constraints # None
                /\ strip(h.constraints[1]) # <<>>
                /\ ~IsJsonObject(h.constraints[1])
        IN IF noIdentity \/ badConstraints
           THEN ret.outcome = "Unauthorized"
           ELSE /\ ret.outcome = "ok"
                /\ ret.value.principal_id = strip(h.principal[1])
                /\ ret.value.capabilities = PatternsOf(h.capabilities)
                /\ ret.value.disabled = FALSE

\* C20: the mint endpoint appends a record and returns a token only when
\* DYNAMIC_MCP_ENABLE_MINT is "1", DYNAMIC_MCP_ADMIN_TOKEN is non-empty and
\* equal to the admin_token given, and the auth mode is apikey; in every
\* other case it fails and the store is as it was.
MintAllowed(admin_token) ==
    /\ env.ENABLE_MINT = Some("1")
    /\ env.ADMIN_TOKEN # None
    /\ env.ADMIN_TOKEN[1] # ""
    /\ admin_token = env.ADMIN_TOKEN
    /\ get_auth_mode = S_apikey
C20_MintEndpointGated ==
    [][ \A a \in MintArgs, ttl \in TtlSeconds, admin_token \in AdminTokens :
          (/\ ret'.op \in {"auth_mint", "mint"}
           /\ MintEndpoint(a[1], a[2], ttl, admin_token)) =>
              IF MintAllowed(admin_token)
              THEN /\ ret'.outcome = "ok"
                   /\ ret'.value = Token(draws')
                   /\ Len(Keys') = Len(Keys) + 1
                   /\ Keys'[Len(Keys')].principal_id = a[1]
                   /\ Keys'[Len(Keys')].capabilities = a[2]
                   /\ Keys'[Len(Keys')].expires_at = isoformat(now + ttl)
              ELSE /\ ret'.outcome \in {"NotFound", "Unauthorized", "BadRequest"}
                   /\ ret'.value = None
                   /\ file' = file
                   /\ minted' = minted
      ]_vars

\* the endpoint has returned a token, with the mode variable set to " ApiKey",
\* and the token resolves
C20_Witness ==
    /\ env.AUTH_MODE = Some(<<" ","A","p","i","K","e","y">>)
    /\ env.ADMIN_TOKEN = Some("adm1n")
    /\ Len(Keys) = 1
    /\ ret.op = "resolve"
    /\ ret.outcome = "ok"

-----------------------------------------------------------------------------
(* Properties of the resolver of the current Principal *)

UnknownMode == get_auth_mode \notin {S_none, S_apikey, S_external}
NoBearerToken(creds) ==
    \/ creds = None
    \/ creds.scheme \notin {S_bearer, <<"B","e","a","r","e","r">>}
    \/ creds.credentials = <<>>

\* C21: under an auth mode other than none, apikey and external, the
\* resolver fails with InternalError whatever the credentials and headers
\* are, and the store file is left as it was; in apikey mode a request with
\* no credential, a scheme other than bearer or an empty token fails with
\* Unauthorized, resolve is not run and the store file is left as it was.
C21_ResolverRefusesEarly ==
    [][\A headers \in ResolverHeaders, creds \in Credentials :
         (/\ ret'.op \in {"get_current_principal", "resolve"}
          /\ GetCurrentPrincipal(headers, creds))
         => /\ UnknownMode =>
                 /\ ret'.op = "get_current_principal"
                 /\ ret'.outcome = "InternalError"
                 /\ ret'.value = None
                 /\ file' = file
            /\ (get_auth_mode = S_apikey /\ NoBearerToken(creds)) =>
                 /\ ret'.op = "get_current_principal"
                 /\ ret'.outcome = "Unauthorized"
                 /\ ret'.detail = "Missing bearer token"
                 /\ ret'.value = None
                 /\ file' = file]_vars

\* an unknown mode has refused a bearer token that the store would resolve
C21_Witness ==
    /\ UnknownMode
    /\ ret.op = "get_current_principal"
    /\ ret.outcome = "InternalError"
    /\ ret.arg.creds # None
    /\ ret.arg.creds.scheme = S_bearer
    /\ ret.arg.creds.credentials \in UsedTokens
    /\ Len(Keys) = 1
    /\ Keys[1].last_used_at = None

-----------------------------------------------------------------------------
(* Properties of resolve when the store file cannot be written *)

\* C22: when the write of last_used_at fails during resolve of a token whose
\* record matches, is unrevoked and is unexpired, resolve still returns the
\* Principal built from that record; the failure of the write is not raised.
C22_WriteFailureSwallowed ==
    [][\A token \in UsedTokens, how \in WriteFailures :
         (/\ ret'.op = "resolve"
          /\ ResolveWriteFails(token, how)
          /\ token \notin revokedOk
          /\ ~ExpiredAt(MintedAs(token), now))
         => /\ ret'.outcome = "ok"
            /\ ret'.value = Principal(MintedAs(token).principal_id,
                                      MintedAs(token).capabilities,
                                      ConstraintsGiven(MintedAs(token)))
            /\ file' = FileAfterFailedWrite(file, how)]_vars

\* resolve has returned the Principal of a record whose last_used_at was
\* never written
C22_Witness ==
    /\ ret.op = "resolve"
    /\ ret.outcome = "ok"
    /\ ret.arg \in UsedTokens
    /\ StoreReadable
    /\ Len(Keys) = 1
    /\ Keys[1].last_used_at = None
    /\ ret.value.principal_id = MintedAs(ret.arg).principal_id

-----------------------------------------------------------------------------
(* Properties of the call_tool route *)

IsPrefix(s, t) == Len(s) <= Len(t) /\ s = SubSeq(t, 1, Len(s))
HoldsToolsCall(principal) == GrantedBy(principal.capabilities, S_tools_call)
PassesTool(principal, tool) ==
    \/ \E i \in DOMAIN tool.required_caps :
          GrantedBy(principal.capabilities, tool.required_caps[i])
    \/ \E i \in DOMAIN tool.tags :
          GrantedBy(principal.capabilities, TagCap(tool.tags[i]))

\* C23: a call_tool request runs authorize_action(principal, tools:call),
\* the lookup of the tool, enforce_tool, the validation of the arguments and
\* the handler, in this order, and stops at the first step that fails: the
\* handler is invoked only when the four steps before it succeeded, and a
\* principal without tools:call receives Forbidden whether or not the tool
\* exists.
C23_RouteOrder ==
    [][ret'.op = "call_tool" =>
        LET name == ret'.arg.name
            arguments == ret'.arg.arguments
            raises == ret'.arg.raises
        IN  /\ CallTool(name, arguments, raises)
            /\ IsPrefix(steps', RouteSteps)
            /\ steps' # <<>>
            /\ IF ~HoldsToolsCall(caller)
               THEN ret'.outcome = Forbidden /\ Len(steps') = 1
               ELSE IF name \notin DOMAIN tools
               THEN ret'.outcome = NotFound /\ Len(steps') = 2
               ELSE IF ~PassesTool(caller, tools[name])
               THEN ret'.outcome = Forbidden /\ Len(steps') = 3
               ELSE IF Errors(tools[name].input_model, arguments) # <<>>
               THEN ret'.outcome = ValidationError /\ Len(steps') = 4
               ELSE /\ ret'.outcome = IF raises THEN HandlerError ELSE "ok"
                    /\ steps' = RouteSteps
            /\ handled' # handled <=> steps' = RouteSteps
            /\ handled' # handled =>
                 /\ HoldsToolsCall(caller)
                 /\ name \in DOMAIN tools
                 /\ PassesTool(caller, tools[name])
                 /\ Errors(tools[name].input_model, arguments) = <<>>]_vars

\* a caller without tools:call, holding the capability of the registered
\* tool add, has been refused at the first step on a name never registered
C23_Witness ==
    /\ ret.op = "call_tool"
    /\ ret.outcome = Forbidden
    /\ steps = <<"authorize_action">>
    /\ caller.capabilities = <<S_tool_math_add>>
    /\ N_add \in DOMAIN tools
    /\ ret.arg.name = N_x
    /\ ret.arg.name \notin DOMAIN tools
    /\ handled = <<>>

-----------------------------------------------------------------------------
(* Properties of call once the arguments are valid *)

LastHandled == handled[Len(handled)]

\* C24: on arguments that pass validation, call invokes the handler exactly
\* once, synchronous or asynchronous: when the handler returns v the result
\* is the envelope with v under the single key value; when the handler
\* raises, the error reaches the caller, no envelope is returned and the
\* handler is not invoked a second time.
C24_HandlerInvokedOnce ==
    [][\A n \in DOMAIN tools, args \in CallArgs :
         Errors(tools[n].input_model, args) = <<>> =>
           /\ (ret'.op = "call" /\ Call(tools[n], args, caller)) =>
                /\ Len(handled') = Len(handled) + 1
                /\ SubSeq(handled', 1, Len(handled)) = handled
                /\ LastHandled'.fn = tools[n].fn.__name__
                /\ ret'.outcome = "ok"
                /\ DOMAIN ret'.value = {"value"}
                /\ ret'.value.value = [returned_by |-> tools[n].fn.__name__,
                                       kwargs |-> LastHandled'.kwargs]
           /\ (ret'.op = "call" /\ CallRaises(tools[n], args, caller)) =>
                /\ Len(handled') = Len(handled) + 1
                /\ SubSeq(handled', 1, Len(handled)) = handled
                /\ LastHandled'.fn = tools[n].fn.__name__
                /\ ret'.outcome = HandlerError
                /\ ret'.value = None]_vars

\* the asynchronous handler greet has raised on valid arguments, after one
\* invocation
C24_Witness ==
    /\ ret.op = "call"
    /\ ret.outcome = HandlerError
    /\ ret.arg.tool.fn.is_async
    /\ ret.arg.tool.fn.__name__ = N_greet
    /\ Len(handled) = 1
    /\ LastHandled.fn = N_greet

-----------------------------------------------------------------------------
(* Properties of overlapping register calls *)

\* the definition that register(a) makes, field by field
CompleteDefinition(a) ==
    [name |-> NameGiven(a), description |-> DescriptionGiven(a), fn |-> a[1],
     input_model |-> InputFields(a[1]), output_model |-> <<"value">>,
     required_caps |-> CapsGiven(a), tags |-> a[5]]
\* request p is between building its definition for X and storing it
Registering(p, X) == pc[p] = "register_store" /\ NameGiven(frame[p].args) = X

\* C25: when register calls for one name overlap each other and get and
\* list, the registry holds under that name one complete definition, the
\* one of the register call that stored last, never a mixture of the fields
\* of two calls; every get and every list sees under that name the complete
\* definition stored before, which a register call under way then replaces
\* by its own complete definition.
C25_RegisterAtomic ==
    [][/\ \A X \in DOMAIN tools' :
            /\ X \in DOMAIN lastReg'
            /\ tools'[X] = CompleteDefinition(lastReg'[X])
       /\ \A p \in Procs, X \in GetNames :
            (Registering(p, X) /\ RegisterEnd(p)) =>
                /\ tools'[X] = CompleteDefinition(frame[p].args)
                /\ \A Y \in DOMAIN tools \ {X} : tools'[Y] = tools[Y]
       /\ \A X \in GetNames :
            (ret'.op = "get" /\ Get(X) /\ X \in DOMAIN lastReg) =>
                /\ ret'.outcome = "ok"
                /\ ret'.value = CompleteDefinition(lastReg[X])
       /\ (ret'.op = "list" /\ List) =>
                ret'.value = {CompleteDefinition(lastReg[X]) : X \in DOMAIN lastReg}
      ]_vars

\* two register calls under add are under way with different definitions
\* while add holds a third one, and get(add) has returned that third one
C25_Witness ==
    /\ Registering(1, N_add)
    /\ Registering(2, N_add)
    /\ frame[1].t # frame[2].t
    /\ N_add \in DOMAIN tools
    /\ tools[N_add] \notin {frame[1].t, frame[2].t}
    /\ ret.op = "get"
    /\ ret.arg = N_add
    /\ ret.value = tools[N_add]

-----------------------------------------------------------------------------
(* Properties of a principal without capabilities *)

\* C26: a principal whose capability list is empty is refused with
\* Forbidden by authorize_action for every action and by enforce_tool for
\* every tool, whatever the tool requires and is tagged with, also when the
\* tool requires the pattern "*".
C26_NoCapabilitiesNoAccess ==
    (/\ ret.op \in {"authorize_action", "enforce_tool"}
     /\ ret.arg.principal.capabilities = <<>>)
    => ret.outcome = Forbidden

\* a principal made from a capabilities header without any pattern has been
\* refused on a tool whose only required capability is "*"
C26_Witness ==
    /\ ret.op = "enforce_tool"
    /\ ret.outcome = Forbidden
    /\ ret.arg.principal.principal_id = S_alice
    /\ ret.arg.principal.capabilities = <<>>
    /\ ret.arg.tool.required_caps = <<S_star>>
    /\ ret.arg.tool.name = N_any

====
